---------------------------- MODULE Spec2Model ----------------------------
(***************************************************************************)
(* Elementool (src/index.js): a selector-based element factory over the    *)
(* DOM.  The module models                                                 *)
(*   - the two string parsers util.selectorToComponents and                *)
(*     util.resolveRelativeElement, character by character;                *)
(*   - the DOM tree the library acts on (document, elements, children,     *)
(*     attributes, inline styles, expando properties);                     *)
(*   - the public operations make/draw/math, objectToElement, append,      *)
(*     applyStyle, setAttributes, remove, removeAllChildren and the        *)
(*     methods make() hangs on an element.                                 *)
(* Strings are TLA+ strings; positions are 1-based (JavaScript's are       *)
(* 0-based), 0 stands for JavaScript's -1 "not found".                     *)
(***************************************************************************)
EXTENDS Integers, Sequences, FiniteSets, TLC

VARIABLES
  parts,       \* the pieces the selector under test was assembled from
  selector,    \* the string handed to the parser
  pstep,       \* position in the parse scenario
  components,  \* result of util.selectorToComponents(selector)
  written,     \* the components written back as a selector string
  reparsed,    \* result of parsing `written` again
  relative,    \* result of util.resolveRelativeElement(selector)
  dom,         \* the document and every element created so far
  pre,         \* the dom as it was when the last call began
  call,        \* the last call: operation, arguments, outcome
  heap,        \* attribute objects the caller holds between calls
  clock,       \* the time the caller's functions read
  mathML,      \* whether the browser defines window.MathMLElement
  eofCloses,   \* whether its selector parser closes what the end of input leaves open
  calls        \* number of calls made, where a run bounds it

parseVars == <<parts, selector, pstep, components, written, reparsed, relative>>
domVars == <<dom, pre, call, heap, clock, mathML, eofCloses, calls>>
vars == <<parseVars, domVars>>

-----------------------------------------------------------------------------
(* Bounds of the model.                                                    *)

MaxParts == 4      \* pieces per selector in the selectorToComponents runs
MaxRelParts == 4   \* pieces per selector in the resolveRelativeElement runs
MaxCreated == 2    \* elements the make/draw/math/objectToElement runs may create
MaxCalls == 3      \* calls per run of the element methods
MaxArray == 3      \* members per array handed to append and to make
MaxStyleParts == 4 \* pieces per style name

-----------------------------------------------------------------------------
(* JavaScript values and strings.                                          *)

\* JavaScript's undefined where a string is expected.  No selector of the
\* model contains '<', so it is distinct from every program string.
Undefined == "<undefined>"

\* if (s): undefined and '' are falsy, every other string is truthy.
Truthy(s) == s # Undefined /\ s # ""

\* s[i], or '' beyond the ends of s.
Ch(s, i) == IF i \in 1..Len(s) THEN SubSeq(s, i, i) ELSE ""

\* const x = v; ... : the value v named once for what follows.
With(v, F(_)) == F(v)

Min(S) == CHOOSE x \in S : \A y \in S : x <= y
Max(S) == CHOOSE x \in S : \A y \in S : x >= y

Digits == {"0", "1", "2", "3", "4", "5", "6", "7", "8", "9"}
Lower == {"a", "b", "c", "d", "e", "f", "g", "h", "i", "j", "k", "l", "m",
          "n", "o", "p", "q", "r", "s", "t", "u", "v", "w", "x", "y", "z"}
Upper == {"A", "B", "C", "D", "E", "F", "G", "H", "I", "J", "K", "L", "M",
          "N", "O", "P", "Q", "R", "S", "T", "U", "V", "W", "X", "Y", "Z"}

\* The regex class [\w-].
IsNameChar(c) == c \in Lower \cup Upper \cup Digits \cup {"_", "-"}

\* String.prototype.indexOf(pat, from), 1-based; 0 when absent.
IndexOfFrom(s, pat, from) ==
  LET C == {i \in from..(Len(s) - Len(pat) + 1) : SubSeq(s, i, i + Len(pat) - 1) = pat}
  IN IF C = {} THEN 0 ELSE Min(C)

\* String.prototype.lastIndexOf(c), 1-based; 0 when absent.
LastIndexOf(s, c) ==
  LET C == {i \in 1..Len(s) : Ch(s, i) = c}
  IN IF C = {} THEN 0 ELSE Max(C)

\* String.prototype.replace(pat, rep) with a string pattern: the first
\* occurrence only.  (rep holds no '$' in the model, so it is taken literally.)
ReplaceFirst(s, pat, rep) ==
  LET i == IndexOfFrom(s, pat, 1)
  IN IF i = 0 THEN s
     ELSE SubSeq(s, 1, i - 1) \o rep \o SubSeq(s, i + Len(pat), Len(s))

\* s.split(pat).join(""): every occurrence removed, left to right.
RECURSIVE RemoveAll(_, _)
RemoveAll(s, pat) ==
  LET i == IndexOfFrom(s, pat, 1)
  IN IF pat = "" \/ i = 0 THEN s
     ELSE SubSeq(s, 1, i - 1) \o RemoveAll(SubSeq(s, i + Len(pat), Len(s)), pat)

\* String.prototype.trim().
Trim(s) ==
  LET K == {i \in 1..Len(s) : Ch(s, i) # " "}
  IN IF K = {} THEN "" ELSE SubSeq(s, Min(K), Max(K))

\* End of the longest run of [\w-] characters that starts at i (i - 1 when
\* s[i] is no such character): what the greedy [\w-]+ consumes.
NameRunEnd(s, i) ==
  LET Stop == {j \in i..Len(s) : ~IsNameChar(Ch(s, j))}
  IN IF Stop = {} THEN Len(s) ELSE Min(Stop) - 1

\* Number.prototype.toString() for a natural number.
RECURSIVE NatToString(_)
NatToString(n) ==
  LET d == SubSeq("0123456789", (n % 10) + 1, (n % 10) + 1)
  IN IF n < 10 THEN d ELSE NatToString(n \div 10) \o d

RECURSIVE Concat(_)
Concat(ss) == IF ss = <<>> THEN "" ELSE Head(ss) \o Concat(Tail(ss))

-----------------------------------------------------------------------------
(* util.selectorToComponents                                               *)

NoMatch == [ok |-> FALSE, name |-> "", value |-> "", last |-> 0]

IsQuote(c) == c \in {"'", "\""}

\* A variant whose pattern has no quoted alternative: the value is whatever
\* stands between '=' and the first ']', quotes included.
AttributeMatchAt_Unquoted(s, i) ==
  With(NameRunEnd(s, i + 1), LAMBDA nameEnd :
    LET j == nameEnd + 1
        close == IndexOfFrom(s, "]", j + 1)
        name == SubSeq(s, i + 1, nameEnd)
    IN IF Ch(s, i) # "[" \/ nameEnd < i + 1 THEN NoMatch
       ELSE IF Ch(s, j) = "=" /\ close > j + 1
         THEN [ok |-> TRUE, name |-> name,
               value |-> SubSeq(s, j + 1, close - 1), last |-> close]
       ELSE IF Ch(s, j) = "]"
         THEN [ok |-> TRUE, name |-> name, value |-> "", last |-> j]
       ELSE NoMatch)

\* attributeRegex = /\[([\w-]+)(?:=(?:['"](.+?)['"]|([^\]]+)))?\]/ tried at
\* position i of s.  name is group 1, value is group 2 || group 3 || '',
\* last is the position of the closing ']'.
\*  - [\w-]+ is greedy and what follows it must be '=' or ']', neither a
\*    name character, so group 1 is the longest run;
\*  - the quoted alternative comes first; .+? is lazy, so group 2 ends
\*    before the first quote character that is followed by ']';
\*  - [^\]]+ runs to the first ']' and must not be empty.
AttributeMatchAt(s, i) ==
  With(NameRunEnd(s, i + 1), LAMBDA nameEnd :
    LET j == nameEnd + 1
        QuotedEnds == {k \in (j + 3)..(Len(s) - 1) : IsQuote(Ch(s, k)) /\ Ch(s, k + 1) = "]"}
        close == IndexOfFrom(s, "]", j + 1)
        name == SubSeq(s, i + 1, nameEnd)
    IN IF Ch(s, i) # "[" \/ nameEnd < i + 1 THEN NoMatch
       ELSE IF Ch(s, j) = "="
         THEN IF IsQuote(Ch(s, j + 1)) /\ QuotedEnds # {}
                THEN [ok |-> TRUE, name |-> name,
                      value |-> SubSeq(s, j + 2, Min(QuotedEnds) - 1),
                      last |-> Min(QuotedEnds) + 1]
              ELSE IF close > j + 1
                THEN [ok |-> TRUE, name |-> name,
                      value |-> SubSeq(s, j + 1, close - 1), last |-> close]
              ELSE NoMatch
       ELSE IF Ch(s, j) = "]"
         THEN [ok |-> TRUE, name |-> name, value |-> "", last |-> j]
       ELSE NoMatch)

\* result.attributes[name] = value on an object whose keys keep insertion
\* order: an existing key keeps its place and takes the new value.
SetKey(obj, name, value) ==
  IF \E k \in 1..Len(obj) : obj[k].name = name
    THEN [k \in 1..Len(obj) |->
            IF obj[k].name = name THEN [name |-> name, value |-> value] ELSE obj[k]]
    ELSE Append(obj, [name |-> name, value |-> value])

\* The while loop over attributeRegex.exec(selector), from position `from`:
\* the attributes object and the doneAttributes list.
RECURSIVE ScanAttributes(_, _, _, _)
ScanAttributes(s, from, attributes, doneAttributes) ==
  LET Hits == {i \in from..Len(s) : AttributeMatchAt(s, i).ok}
  IN IF Hits = {} THEN [attributes |-> attributes, doneAttributes |-> doneAttributes]
     ELSE With(AttributeMatchAt(s, Min(Hits)), LAMBDA m :
            ScanAttributes(s, m.last + 1,
                           SetKey(attributes, m.name, m.value),
                           Append(doneAttributes, SubSeq(s, Min(Hits), m.last))))

\* doneAttributes.forEach(att => selector = selector.split(att).join(""))
RECURSIVE StripAttributes(_, _)
StripAttributes(s, doneAttributes) ==
  IF doneAttributes = <<>> THEN s
  ELSE StripAttributes(RemoveAll(s, Head(doneAttributes)), Tail(doneAttributes))

\* A variant that keeps the last '#name' match instead of the first.
IdMatch_Last(s) ==
  LET Hits == {i \in 1..Len(s) : Ch(s, i) = "#" /\ IsNameChar(Ch(s, i + 1))}
  IN IF Hits = {} THEN Undefined
     ELSE SubSeq(s, Max(Hits) + 1, NameRunEnd(s, Max(Hits) + 1))

\* idRegex = /#([\w-]+)/ is not global: String.match returns its first match.
IdMatch(s) ==
  LET Hits == {i \in 1..Len(s) : Ch(s, i) = "#" /\ IsNameChar(Ch(s, i + 1))}
  IN IF Hits = {} THEN Undefined
     ELSE SubSeq(s, Min(Hits) + 1, NameRunEnd(s, Min(Hits) + 1))

\* The while loop over classRegex = /\.([\w-]+)/g: every match, in order.
RECURSIVE ClassMatches(_, _)
ClassMatches(s, from) ==
  LET Hits == {i \in from..Len(s) : Ch(s, i) = "." /\ IsNameChar(Ch(s, i + 1))}
  IN IF Hits = {} THEN <<>>
     ELSE LET e == NameRunEnd(s, Min(Hits) + 1)
          IN <<SubSeq(s, Min(Hits) + 1, e)>> \o ClassMatches(s, e + 1)

selectorToComponents(sel) ==
  With(ScanAttributes(sel, 1, <<>>, <<>>), LAMBDA scan :
  With(StripAttributes(sel, scan.doneAttributes), LAMBDA s1 :
    LET tagEnd == NameRunEnd(s1, 1)              \* tagNameRegex = /^[\w-]+/
        s2 == IF tagEnd >= 1 THEN SubSeq(s1, tagEnd + 1, Len(s1)) ELSE s1
    IN [tagName |-> IF tagEnd >= 1 THEN SubSeq(s1, 1, tagEnd) ELSE "div",
        id |-> IdMatch(s2),
        classList |-> ClassMatches(s2, 1),
        attributes |-> scan.attributes]))

-----------------------------------------------------------------------------
(* util.resolveRelativeElement                                             *)

\* attributeRegex = /\[.*?\]/g run from position `from`: the first '[' that
\* has a ']' after it, up to the first such ']'.
BracketMatchFrom(s, from) ==
  With(IndexOfFrom(s, "[", from), LAMBDA open :
    LET close == IF open = 0 THEN 0 ELSE IndexOfFrom(s, "]", open + 1)
    IN [ok |-> open # 0 /\ close # 0, first |-> open, last |-> close])

\* The placeholder loop.  exec() resumes at lastIndex, the end of the
\* previous match in the string as it was then, while `input` has since
\* been rewritten by replace().
RECURSIVE PlaceholderLoop(_, _, _)
PlaceholderLoop(input, from, attributePlaceholders) ==
  With(BracketMatchFrom(input, from), LAMBDA m :
    IF ~m.ok THEN [input |-> input, attributePlaceholders |-> attributePlaceholders]
    ELSE LET text == SubSeq(input, m.first, m.last)
             placeholder == "ATTR" \o NatToString(Len(attributePlaceholders))
         IN PlaceholderLoop(ReplaceFirst(input, text, placeholder), m.last + 1,
                            Append(attributePlaceholders, text)))

\* The restore loop: placeholders 0.. in turn, in each part that is truthy.
RECURSIVE RestoreLoop(_, _, _)
RestoreLoop(result, attributePlaceholders, i) ==
  IF i > Len(attributePlaceholders) THEN result
  ELSE LET ph == "ATTR" \o NatToString(i - 1)
           put(s) == ReplaceFirst(s, ph, attributePlaceholders[i])
       IN RestoreLoop(
            [elementDefinition |-> put(result.elementDefinition),
             parentElement |-> IF Truthy(result.parentElement)
                                 THEN put(result.parentElement) ELSE result.parentElement,
             siblingElement |-> IF Truthy(result.siblingElement)
                                  THEN put(result.siblingElement) ELSE result.siblingElement],
            attributePlaceholders, i + 1)

resolveRelativeElement(inp) ==
  With(PlaceholderLoop(inp, 1, <<>>), LAMBDA loop :
  With(Max({LastIndexOf(loop.input, ">"), LastIndexOf(loop.input, "+")}),
       LAMBDA lastCombinatorIndex :
    LET input == loop.input
        split ==
          IF lastCombinatorIndex # 0
            THEN [elementDefinition |-> Trim(SubSeq(input, lastCombinatorIndex + 1, Len(input))),
                  parentElement |-> IF Ch(input, lastCombinatorIndex) = ">"
                                      THEN Trim(SubSeq(input, 1, lastCombinatorIndex - 1))
                                      ELSE Undefined,
                  siblingElement |-> IF Ch(input, lastCombinatorIndex) = ">"
                                       THEN Undefined
                                       ELSE Trim(SubSeq(input, 1, lastCombinatorIndex - 1))]
            ELSE [elementDefinition |-> Trim(input),
                  parentElement |-> Undefined, siblingElement |-> Undefined]
    IN RestoreLoop(split, loop.attributePlaceholders, 1)))


-----------------------------------------------------------------------------
(* JavaScript values handed to the library.                                *)

JsUndefined == [t |-> "undefined"]
JsNull == [t |-> "null"]
JsString(s) == [t |-> "string", s |-> s]
JsNumber(n) == [t |-> "number", n |-> n]
JsFunction(f) == [t |-> "function", f |-> f]
JsElement(n) == [t |-> "element", n |-> n]
JsDocument == [t |-> "document"]   \* a Node that is not an Element
JsArray(items) == [t |-> "array", items |-> items]
\* An object literal: its own properties in insertion order.
JsObject(props) == [t |-> "object", props |-> props]
Prop(name, value) == [name |-> name, value |-> value]

\* obj[name] on an object literal: undefined when the property is absent.
Get(obj, name) ==
  LET K == {k \in 1..Len(obj.props) : obj.props[k].name = name}
  IN IF K = {} THEN JsUndefined ELSE obj.props[Min(K)].value

\* if (v)
JsTruthy(v) ==
  CASE v.t \in {"undefined", "null"} -> FALSE
    [] v.t = "string" -> v.s # ""
    [] v.t = "number" -> v.n # 0
    [] OTHER -> TRUE

\* v instanceof Element
IsElement(v) == v.t = "element"

\* The functions callers pass as dynamic content, style or attribute
\* values: "constA" returns the same string on every call, "tick" returns a
\* string that depends on the time of the call.
CallFunction(f, now) ==
  IF f = "constA" THEN "A" ELSE IF now = 0 THEN "t0" ELSE "t1"

-----------------------------------------------------------------------------
(* The DOM: document, elements, child lists.                               *)

DOC == 0          \* the document node
NoParent == -1    \* parentNode === null

TextNode(s) == [t |-> "text", n |-> 0, s |-> s]
ElementNode(k) == [t |-> "element", n |-> k, s |-> ""]

EmptyMap == [x \in {} |-> ""]

\* A new element as document.createElement / createElementNS returns it.
NewElement(ns, tagName) ==
  [ns |-> ns, tagName |-> tagName, id |-> "", classList |-> <<>>,
   attributes |-> EmptyMap, style |-> EmptyMap, childNodes |-> <<>>,
   listeners |-> {},
   dynamicContent |-> "", dynamicStyles |-> <<>>,
   dynamicAttributes |-> <<>>, methods |-> {}]

Elements(d) == 1..d.count

ChildElements(d, p) ==
  LET cs == IF p = DOC THEN d.root ELSE d.el[p].childNodes
  IN {cs[i].n : i \in {j \in 1..Len(cs) : cs[j].t = "element"}}

\* node.parentNode
ParentOf(d, k) ==
  IF k \in ChildElements(d, DOC) THEN DOC
  ELSE IF \E p \in Elements(d) : k \in ChildElements(d, p)
    THEN CHOOSE p \in Elements(d) : k \in ChildElements(d, p)
  ELSE NoParent

RECURSIVE IsInclusiveAncestor(_, _, _)
IsInclusiveAncestor(d, a, k) ==
  \/ a = k
  \/ /\ k \in Elements(d)
     /\ ParentOf(d, k) # NoParent
     /\ IsInclusiveAncestor(d, a, ParentOf(d, k))

Without(cs, k) == SelectSeq(cs, LAMBDA c : ~(c.t = "element" /\ c.n = k))

\* The child lists with element k taken out of its parent.
Detach(d, k) ==
  [d EXCEPT !.root = Without(@, k),
            !.el = [e \in Elements(d) |-> [@[e] EXCEPT !.childNodes = Without(@, k)]]]

Ok(d) == [d |-> d, threw |-> "", ret |-> JsUndefined]
Throw(d, name) == [d |-> d, threw |-> name, ret |-> JsUndefined]
Return(d, v) == [d |-> d, threw |-> "", ret |-> v]

\* parent.appendChild(node) for an element parent p and an element k: a
\* node that is p or an ancestor of p is refused; otherwise the node leaves
\* its old parent and becomes the last child of p.
appendChild(d, p, k) ==
  IF IsInclusiveAncestor(d, k, p) THEN Throw(d, "HierarchyRequestError")
  ELSE Ok([Detach(d, k) EXCEPT !.el[p].childNodes = Append(@, ElementNode(k))])

PositionOf(cs, k) == CHOOSE i \in 1..Len(cs) : cs[i].t = "element" /\ cs[i].n = k

InsertAt(cs, i, c) == SubSeq(cs, 1, i) \o <<c>> \o SubSeq(cs, i + 1, Len(cs))

\* sibling.parentNode.insertBefore(node, sibling.nextSibling) for a sibling s
\* that has a parent and a node k that is in no tree with s: the node is put
\* right after s.  A document takes no second element child.
insertAfter(d, s, k) ==
  LET p == ParentOf(d, s)
      d1 == Detach(d, k)
  IN IF p = DOC \/ IsInclusiveAncestor(d, k, p) THEN Throw(d, "HierarchyRequestError")
     ELSE Ok([d1 EXCEPT !.el[p].childNodes =
                          InsertAt(@, PositionOf(@, s), ElementNode(k))])

\* element.textContent = s: every child goes, one text node comes unless s
\* is empty.
SetTextContent(d, k, s) ==
  [d EXCEPT !.el[k].childNodes = IF s = "" THEN <<>> ELSE <<TextNode(s)>>]

\* element.textContent read back: the text of its descendants in order.
RECURSIVE TextOf(_, _)
RECURSIVE TextContent(_, _)
TextOf(d, cs) ==
  IF cs = <<>> THEN ""
  ELSE (IF Head(cs).t = "text" THEN Head(cs).s ELSE TextContent(d, Head(cs).n))
         \o TextOf(d, Tail(cs))
TextContent(d, k) == TextOf(d, d.el[k].childNodes)

\* element.setAttribute(name, value) and setAttributeNS(null, name, value);
\* the id and class attributes are what element.id and element.classList
\* reflect.
SetAttribute(e, name, value) ==
  [e EXCEPT !.attributes = (name :> value) @@ @,
            !.id = IF name = "id" THEN value ELSE @]

\* element.classList.add(token)
ClassListAdd(e, token) ==
  IF \E i \in 1..Len(e.classList) : e.classList[i] = token THEN e
  ELSE [e EXCEPT !.classList = Append(@, token)]

\* element.style[name] = value and element.style.setProperty(name, value)
SetStyle(e, name, value) == [e EXCEPT !.style = (name :> value) @@ @]

\* document.createElement(tagName) / createElementNS(ns, tagName): a name
\* that does not start like an XML name raises InvalidCharacterError.
ValidTagName(tagName) ==
  tagName # "" /\ Ch(tagName, 1) \notin Digits \cup {"-"}

\* A variant that creates an element whatever the name.
createElement_Lenient(d, ns, tagName) ==
  Return([d EXCEPT !.count = @ + 1,
                   !.el = (d.count + 1 :> NewElement(ns, tagName)) @@ @],
         JsElement(d.count + 1))

createElement(d, ns, tagName) ==
  IF ~ValidTagName(tagName) THEN Throw(d, "InvalidCharacterError")
  ELSE Return([d EXCEPT !.count = @ + 1,
                        !.el = (d.count + 1 :> NewElement(ns, tagName)) @@ @],
              JsElement(d.count + 1))

\* The elements of a child list and their descendants, in tree order.
RECURSIVE PreOrder(_, _)
PreOrder(d, cs) ==
  IF cs = <<>> THEN <<>>
  ELSE (IF Head(cs).t = "element"
          THEN <<Head(cs).n>> \o PreOrder(d, d.el[Head(cs).n].childNodes)
          ELSE <<>>)
       \o PreOrder(d, Tail(cs))

\* What the end of the input closes in a selector: the string and the
\* bracket that are still open there ('' when nothing is open).
RECURSIVE OpenAtEnd(_, _, _, _)
OpenAtEnd(s, i, inBracket, quote) ==
  IF i > Len(s) THEN quote \o (IF inBracket THEN "]" ELSE "")
  ELSE LET c == Ch(s, i)
       IN IF quote # "" THEN OpenAtEnd(s, i + 1, inBracket, IF c = quote THEN "" ELSE quote)
          ELSE IF inBracket
            THEN OpenAtEnd(s, i + 1, c # "]", IF IsQuote(c) THEN c ELSE "")
          ELSE OpenAtEnd(s, i + 1, c = "[", "")

\* Index of the first blank, '>' or '+' outside brackets at or after i; 0
\* when there is none.
RECURSIVE CombinatorFrom(_, _, _, _)
CombinatorFrom(s, i, inBracket, quote) ==
  IF i > Len(s) THEN 0
  ELSE LET c == Ch(s, i)
       IN IF quote # "" THEN CombinatorFrom(s, i + 1, inBracket, IF c = quote THEN "" ELSE quote)
          ELSE IF inBracket
            THEN CombinatorFrom(s, i + 1, c # "]", IF IsQuote(c) THEN c ELSE "")
          ELSE IF c \in {" ", ">", "+"} THEN i
          ELSE CombinatorFrom(s, i + 1, c = "[", "")

\* A complex selector as the list of its compound selectors, each with the
\* combinator that stands before it (' ' for the descendant combinator).
RECURSIVE ComplexSelector(_, _)
ComplexSelector(s, comb) ==
  LET i == CombinatorFrom(s, 1, FALSE, "")
      Stop == {j \in i..Len(s) : Ch(s, j) \notin {" ", ">", "+"}}
      j == IF Stop = {} THEN Len(s) + 1 ELSE Min(Stop)
      run == Trim(SubSeq(s, i, j - 1))
  IN IF i = 0 THEN <<[comb |-> comb, compound |-> s]>>
     ELSE <<[comb |-> comb, compound |-> SubSeq(s, 1, i - 1)]>>
            \o ComplexSelector(SubSeq(s, j, Len(s)), IF run = "" THEN " " ELSE run)

\* Index of the ']' that closes a bracket whose text starts at i; 0 when
\* there is none.
RECURSIVE BracketEnd(_, _, _)
BracketEnd(s, i, quote) ==
  IF i > Len(s) THEN 0
  ELSE LET c == Ch(s, i)
       IN IF quote # "" THEN BracketEnd(s, i + 1, IF c = quote THEN "" ELSE quote)
          ELSE IF c = "]" THEN i
          ELSE BracketEnd(s, i + 1, IF IsQuote(c) THEN c ELSE "")

\* The attribute selector with the text t between its brackets: [name],
\* [name=ident], [name="string"] or [name='string'].
AttributeSelector(t) ==
  With(NameRunEnd(t, 1), LAMBDA n :
    LET v == SubSeq(t, n + 2, Len(t))
        quoted == Len(v) >= 2 /\ IsQuote(Ch(v, 1)) /\ Ch(v, Len(v)) = Ch(v, 1)
        ident == v # "" /\ NameRunEnd(v, 1) = Len(v) /\ Ch(v, 1) \notin Digits
    IN [valid |-> /\ n >= 1
                  /\ Ch(t, 1) \notin Digits
                  /\ n = Len(t) \/ (Ch(t, n + 1) = "=" /\ (quoted \/ ident)),
        name |-> SubSeq(t, 1, n),
        test |-> IF n = Len(t) THEN "has" ELSE "is",
        value |-> IF quoted THEN SubSeq(v, 2, Len(v) - 1) ELSE v])

NoCompound ==
  [valid |-> TRUE, tagName |-> "", ids |-> {}, classes |-> {}, attributes |-> <<>>]

\* A compound selector: an optional tag name, then '#id', '.class' and
\* '[attribute]' parts.  Anything else makes it invalid.
RECURSIVE CompoundFrom(_, _, _)
CompoundFrom(s, i, acc) ==
  IF i > Len(s) THEN [acc EXCEPT !.valid = s # ""]
  ELSE
    LET c == Ch(s, i)
        invalid == [acc EXCEPT !.valid = FALSE]
    IN IF c \in {"#", "."}
         THEN With(NameRunEnd(s, i + 1), LAMBDA j :
                IF j < i + 1 \/ Ch(s, i + 1) \in Digits THEN invalid
                ELSE CompoundFrom(s, j + 1,
                       IF c = "#" THEN [acc EXCEPT !.ids = @ \cup {SubSeq(s, i + 1, j)}]
                       ELSE [acc EXCEPT !.classes = @ \cup {SubSeq(s, i + 1, j)}]))
       ELSE IF c = "["
         THEN With(BracketEnd(s, i + 1, ""), LAMBDA j :
              With(AttributeSelector(SubSeq(s, i + 1, j - 1)), LAMBDA a :
                IF j = 0 \/ ~a.valid THEN invalid
                ELSE CompoundFrom(s, j + 1, [acc EXCEPT !.attributes = Append(@, a)])))
       ELSE IF i = 1 /\ IsNameChar(c) /\ c \notin Digits
         THEN CompoundFrom(s, NameRunEnd(s, 1) + 1,
                           [acc EXCEPT !.tagName = SubSeq(s, 1, NameRunEnd(s, 1))])
       ELSE invalid

\* element.getAttribute(name); the id and the class list are attributes too.
HasAttribute(e, name) ==
  \/ name \in DOMAIN e.attributes
  \/ name = "id" /\ e.id # ""
  \/ name = "class" /\ e.classList # <<>>

RECURSIVE Joined(_)
Joined(tokens) ==
  IF tokens = <<>> THEN ""
  ELSE IF Len(tokens) = 1 THEN tokens[1]
  ELSE tokens[1] \o " " \o Joined(Tail(tokens))

GetAttribute(e, name) ==
  IF name = "id" /\ e.id # "" THEN e.id
  ELSE IF name = "class" /\ e.classList # <<>> THEN Joined(e.classList)
  ELSE e.attributes[name]

MatchesCompound(e, c) ==
  /\ c.tagName \in {"", e.tagName}
  /\ \A i \in c.ids : e.id = i
  /\ \A cl \in c.classes : \E k \in 1..Len(e.classList) : e.classList[k] = cl
  /\ \A k \in 1..Len(c.attributes) :
       /\ HasAttribute(e, c.attributes[k].name)
       /\ c.attributes[k].test = "is" =>
            GetAttribute(e, c.attributes[k].name) = c.attributes[k].value

\* element.previousElementSibling, NoParent when there is none.
PreviousElement(d, k) ==
  With(ParentOf(d, k), LAMBDA p :
    LET cs == IF p = DOC THEN d.root ELSE d.el[p].childNodes
        Before == {i \in 1..Len(cs) : cs[i].t = "element" /\ i < PositionOf(cs, k)}
    IN IF p = NoParent \/ Before = {} THEN NoParent ELSE cs[Max(Before)].n)

\* Whether element k matches the first n compounds of a complex selector.
RECURSIVE MatchesComplex(_, _, _, _)
MatchesComplex(d, k, cs, n) ==
  /\ MatchesCompound(d.el[k], cs[n].c)
  /\ \/ n = 1
     \/ /\ cs[n].comb = ">"
        /\ ParentOf(d, k) \in Elements(d)
        /\ MatchesComplex(d, ParentOf(d, k), cs, n - 1)
     \/ /\ cs[n].comb = "+"
        /\ PreviousElement(d, k) \in Elements(d)
        /\ MatchesComplex(d, PreviousElement(d, k), cs, n - 1)
     \/ /\ cs[n].comb = " "
        /\ \E a \in Elements(d) :
             /\ a # k
             /\ IsInclusiveAncestor(d, a, k)
             /\ MatchesComplex(d, a, cs, n - 1)

\* document.querySelector(sel): the first element of the document, in tree
\* order, that matches the selector; null when none does; SyntaxError when
\* sel is no selector.  A string or bracket left open at the end of sel is
\* closed there by a parser that follows CSS Syntax, and is an error for
\* one that does not (eofCloses).
querySelector(d, sel) ==
  With(OpenAtEnd(sel, 1, FALSE, ""), LAMBDA open :
  With(ComplexSelector(Trim(sel \o open), ""), LAMBDA split :
  With([i \in 1..Len(split) |->
          [comb |-> split[i].comb,
           c |-> CompoundFrom(split[i].compound, 1, NoCompound)]], LAMBDA cs :
  With(PreOrder(d, d.root), LAMBDA order :
    LET valid == /\ open = "" \/ eofCloses
                 /\ \A i \in 1..Len(cs) : cs[i].c.valid /\ cs[i].comb \in {"", " ", ">", "+"}
        Hits == {i \in 1..Len(order) : MatchesComplex(d, order[i], cs, Len(cs))}
    IN IF ~valid THEN Throw(d, "SyntaxError")
       ELSE IF Hits = {} THEN Return(d, JsNull)
       ELSE Return(d, JsElement(order[Min(Hits)]))))))

-----------------------------------------------------------------------------
(* util.applyStylesToElement and util.setAttributesOnElement               *)

\* property.replace(/-./g, match => match.charAt(1).toUpperCase())
UpperCase(c) ==
  LET K == {i \in 1..26 : SubSeq("abcdefghijklmnopqrstuvwxyz", i, i) = c}
  IN IF K = {} THEN c
     ELSE SubSeq("ABCDEFGHIJKLMNOPQRSTUVWXYZ", Min(K), Min(K))

\* A variant that sets every name as it is given.
ToJsNotation_AsGiven(property) == property

RECURSIVE ToJsNotation(_)
ToJsNotation(property) ==
  IF Len(property) < 2 THEN property
  ELSE IF Ch(property, 1) = "-"
    THEN UpperCase(Ch(property, 2)) \o ToJsNotation(SubSeq(property, 3, Len(property)))
  ELSE Ch(property, 1) \o ToJsNotation(SubSeq(property, 2, Len(property)))

\* A variant that keeps the dynamic styles in a list it only ever appends to.
ApplyOneStyle_Appending(e, property, value) ==
  LET e1 == IF value.t = "function"
              THEN [e EXCEPT !.dynamicStyles = Append(@, Prop(property, value))]
              ELSE e
      v == IF value.t = "function" THEN CallFunction(value.f, clock) ELSE value.s
  IN IF Len(property) >= 2 /\ SubSeq(property, 1, 2) = "--" THEN SetStyle(e1, property, v)
     ELSE SetStyle(e1, ToJsNotation(property), v)

\* One turn of the loop of applyStylesToElement: a function value is kept
\* in element._dynamicStyles and called; a name that starts with '--' goes
\* through setProperty, a name in CSS notation is converted, any other is
\* set as given.
ApplyOneStyle(e, property, value) ==
  LET e1 == IF value.t = "function"
              THEN [e EXCEPT !.dynamicStyles = SetKey(@, property, value)]
              ELSE e
      v == IF value.t = "function" THEN CallFunction(value.f, clock) ELSE value.s
  IN IF Len(property) >= 2 /\ SubSeq(property, 1, 2) = "--" THEN SetStyle(e1, property, v)
     ELSE SetStyle(e1, ToJsNotation(property), v)

RECURSIVE ApplyStyleProps(_, _)
ApplyStyleProps(e, props) ==
  IF props = <<>> THEN e
  ELSE ApplyStyleProps(ApplyOneStyle(e, Head(props).name, Head(props).value), Tail(props))

\* util.applyStylesToElement(element, styles), on the element's record:
\* for...in over anything but an object visits nothing.
applyStylesToElement(e, styles) ==
  IF styles.t = "object" THEN ApplyStyleProps(e, styles.props) ELSE e

\* The loop of util.setAttributesOnElement from entry i on.  `aliased` says
\* that `attributes` is element._dynamicAttributes itself (render's call).
\* A function value is kept in element._dynamicAttributes and the entry of
\* `attributes` is overwritten with its result.  An SVG element is set
\* through setAttributeNS(null, ..), a MathML element, where the browser
\* knows MathMLElement, through the two-argument setAttributeNS(attr, value),
\* which raises TypeError, any other element through setAttribute.
RECURSIVE SetAttributesFrom(_, _, _, _)
SetAttributesFrom(e, attributes, i, aliased) ==
  IF i > Len(attributes) THEN [e |-> e, attributes |-> attributes, threw |-> ""]
  ELSE LET p == attributes[i]
           isFn == p.value.t = "function"
           v == IF isFn THEN JsString(CallFunction(p.value.f, clock)) ELSE p.value
           attributes1 == [attributes EXCEPT ![i].value = v]
           e1 == IF ~isFn THEN e
                 ELSE [e EXCEPT !.dynamicAttributes =
                                  IF aliased THEN attributes1 ELSE SetKey(@, p.name, p.value)]
       IN IF e.ns = "mathml" /\ mathML
            THEN [e |-> e1, attributes |-> attributes1, threw |-> "TypeError"]
          ELSE SetAttributesFrom(SetAttribute(e1, p.name, v.s), attributes1, i + 1, aliased)

\* util.setAttributesOnElement(element, attributes): the element's record and
\* the attributes object as the call leaves them.
setAttributesOnElement(e, attributes, aliased) ==
  SetAttributesFrom(e, attributes, 1, aliased)

-----------------------------------------------------------------------------
(* util.make, make/draw/math, objectToElement                              *)

ElementMethods == {"appendTo", "setStyles", "setAttributes", "setContent", "render"}

\* newElement.addEventListener(event, fn) for every own property that holds
\* a function.
AddListeners(e, listeners) ==
  IF listeners.t # "object" THEN e
  ELSE [e EXCEPT !.listeners = @ \cup
          {<<listeners.props[k].name, listeners.props[k].value.f>> :
             k \in {j \in 1..Len(listeners.props) : listeners.props[j].value.t = "function"}}]

\* (content.draw || content.make || content.math) on a non-null object
IsDefinition(v) ==
  /\ v.t = "object"
  /\ JsTruthy(Get(v, "draw")) \/ JsTruthy(Get(v, "make")) \/ JsTruthy(Get(v, "math"))

AsProps(attributes) ==
  [k \in 1..Len(attributes) |-> Prop(attributes[k].name, JsString(attributes[k].value))]

\* What follows a step of a call: nothing when the step has thrown.
Then(r, F(_)) == IF r.threw # "" THEN r ELSE F(r)

\* A variant without the tests `if (parent)` and `if (sibling && ...)`: a
\* selector that finds nothing ends in the TypeError of a call on null.
Attach_Unguarded(d, elementInfo, k) ==
  IF Truthy(elementInfo.parentElement)
    THEN Then(querySelector(d, elementInfo.parentElement), LAMBDA parent :
           IF parent.ret.t = "element" THEN appendChild(d, parent.ret.n, k)
           ELSE Throw(d, "TypeError"))
  ELSE IF Truthy(elementInfo.siblingElement)
    THEN Then(querySelector(d, elementInfo.siblingElement), LAMBDA sibling :
           IF sibling.ret.t = "element" /\ ParentOf(d, sibling.ret.n) # NoParent
             THEN insertAfter(d, sibling.ret.n, k)
           ELSE Throw(d, "TypeError"))
  ELSE Ok(d)

\* The attach step of util.make for the new element k.
Attach(d, elementInfo, k) ==
  IF Truthy(elementInfo.parentElement)
    THEN Then(querySelector(d, elementInfo.parentElement), LAMBDA parent :
           IF parent.ret.t = "element" THEN appendChild(d, parent.ret.n, k)
           ELSE Ok(d))
  ELSE IF Truthy(elementInfo.siblingElement)
    THEN Then(querySelector(d, elementInfo.siblingElement), LAMBDA sibling :
           IF sibling.ret.t = "element" /\ ParentOf(d, sibling.ret.n) # NoParent
             THEN insertAfter(d, sibling.ret.n, k)
           ELSE Ok(d))
  ELSE Ok(d)

RECURSIVE make(_, _, _, _, _, _)
RECURSIVE objectToElement(_, _)
RECURSIVE AppendChildren(_, _, _)

\* A variant without the test `proposedContent instanceof Element`:
\* appendChild(undefined) ends in a TypeError.
AppendBuilt_Unchecked(proposedContent, k) ==
  Then(proposedContent,
       LAMBDA built : IF IsElement(built.ret) THEN appendChild(built.d, k, built.ret.n)
                      ELSE Throw(built.d, "TypeError"))

\* if (proposedContent instanceof Element) newElement.appendChild(proposedContent)
AppendBuilt(proposedContent, k) ==
  Then(proposedContent,
       LAMBDA built : IF IsElement(built.ret) THEN appendChild(built.d, k, built.ret.n)
                      ELSE Ok(built.d))

\* content.forEach(child => ...) of util.make for the new element k.
AppendChildren(d, k, items) ==
  IF items = <<>> THEN Ok(d)
  ELSE Then(IF IsElement(Head(items)) THEN appendChild(d, k, Head(items).n)
            ELSE IF IsDefinition(Head(items))
              THEN AppendBuilt(objectToElement(d, Head(items)), k)
            ELSE Ok(d),
            LAMBDA r : AppendChildren(r.d, k, Tail(items)))

\* The content dispatch of util.make for the new element k.
SetContent(d, k, content) ==
  CASE content.t = "string" -> Ok(SetTextContent(d, k, content.s))
    [] content.t = "function" ->
         Ok(SetTextContent([d EXCEPT !.el[k].dynamicContent = content.f],
                           k, CallFunction(content.f, clock)))
    [] content.t = "element" -> appendChild(d, k, content.n)
    [] IsDefinition(content) -> AppendBuilt(objectToElement(d, content), k)
    [] content.t = "array" -> AppendChildren(d, k, content.items)
    [] OTHER -> Ok(d)

\* components.classList.forEach(className => newElement.classList.add(className))
RECURSIVE AddClasses(_, _)
AddClasses(e, classList) ==
  IF classList = <<>> THEN e
  ELSE AddClasses(ClassListAdd(e, Head(classList)), Tail(classList))

\* The id, the classes and the attributes of the selector, set on the new
\* element k.
SetComponents(d, k, comps) ==
  LET a == setAttributesOnElement(
             AddClasses(IF Truthy(comps.id) THEN [d.el[k] EXCEPT !.id = comps.id]
                        ELSE d.el[k],
                        comps.classList),
             AsProps(comps.attributes), FALSE)
  IN [d |-> [d EXCEPT !.el[k] = a.e], threw |-> a.threw, ret |-> JsUndefined]

\* The styles and the event listeners, set on the new element k.
SetStylesAndListeners(d, k, styles, listeners) ==
  [d EXCEPT !.el[k] = AddListeners(IF JsTruthy(styles)
                                     THEN applyStylesToElement(@, styles) ELSE @,
                                   listeners)]

\* The methods hung on the new element k, which make then returns.
AddMethods(d, k) == Return([d EXCEPT !.el[k].methods = ElementMethods], JsElement(k))

\* util.make(selector, content, styles, optionalNamespace,
\* optionalEventListeners); ns = "" stands for no namespace.
make(d, sel, content, styles, ns, listeners) ==
  LET elementInfo == resolveRelativeElement(sel)
      comps == selectorToComponents(elementInfo.elementDefinition)
      k == d.count + 1
  IN Then(createElement(d, IF ns = "" THEN "html" ELSE ns, comps.tagName),
       LAMBDA created :
     Then(SetComponents(created.d, k, comps),
       LAMBDA set :
     Then(SetContent(set.d, k, content),
       LAMBDA filled :
     Then(Attach(SetStylesAndListeners(filled.d, k, styles, listeners), elementInfo, k),
       LAMBDA attached :
     AddMethods(attached.d, k)))))

\* this.make / this.draw / this.math
makeHtml(d, sel, content, styles, listeners) == make(d, sel, content, styles, "", listeners)

draw(d, sel, content, styles, listeners) ==
  Then(make(d, sel, content, styles, "svg", listeners),
       LAMBDA svgElement :
         [svgElement EXCEPT !.d.el[svgElement.ret.n].methods = @ \cup {"moveElementBehind"}])

math(d, sel, content, styles, listeners) == make(d, sel, content, styles, "mathml", listeners)

\* A variant without the try / catch.
objectToElement_NoCatch(d, obj) ==
  IF obj.t \in {"undefined", "null"} THEN Throw(d, "TypeError")
  ELSE IF obj.t # "object" THEN Return(d, JsUndefined)
  ELSE
    LET arg(n) == Get(obj, n)
    IN IF arg("make").t = "string"
         THEN makeHtml(d, arg("make").s, arg("content"), arg("styles"), arg("listeners"))
       ELSE IF arg("draw").t = "string"
         THEN draw(d, arg("draw").s, arg("content"), arg("styles"), arg("listeners"))
       ELSE IF arg("math").t = "string"
         THEN math(d, arg("math").s, arg("content"), arg("styles"), arg("listeners"))
       ELSE Return(d, JsUndefined)

\* A variant that looks at draw before make.
objectToElement_DrawFirst(d, obj) ==
  IF obj.t \in {"undefined", "null"} THEN Return(d, JsUndefined)
  ELSE IF obj.t # "object" THEN Return(d, JsUndefined)
  ELSE
    LET arg(n) == Get(obj, n)
        r == IF arg("draw").t = "string"
               THEN draw(d, arg("draw").s, arg("content"), arg("styles"), arg("listeners"))
             ELSE IF arg("make").t = "string"
               THEN makeHtml(d, arg("make").s, arg("content"), arg("styles"), arg("listeners"))
             ELSE IF arg("math").t = "string"
               THEN math(d, arg("math").s, arg("content"), arg("styles"), arg("listeners"))
             ELSE Return(d, JsUndefined)
    IN IF r.threw # "" THEN Return(r.d, JsUndefined) ELSE r

\* catch (e) { } : the call returns undefined.
Caught(r) == IF r.threw # "" THEN Return(r.d, JsUndefined) ELSE r

\* this.objectToElement(obj): whatever is thrown inside is caught and the
\* call then returns undefined.
objectToElement(d, obj) ==
  IF obj.t \in {"undefined", "null"} THEN Return(d, JsUndefined)   \* TypeError, caught
  ELSE IF obj.t # "object" THEN Return(d, JsUndefined)
  ELSE
    LET arg(n) == Get(obj, n)
    IN Caught(IF arg("make").t = "string"
                THEN makeHtml(d, arg("make").s, arg("content"), arg("styles"), arg("listeners"))
              ELSE IF arg("draw").t = "string"
                THEN draw(d, arg("draw").s, arg("content"), arg("styles"), arg("listeners"))
              ELSE IF arg("math").t = "string"
                THEN math(d, arg("math").s, arg("content"), arg("styles"), arg("listeners"))
              ELSE Return(d, JsUndefined))

-----------------------------------------------------------------------------
(* The public helpers and the methods make() hangs on an element.          *)

\* A variant without the instanceof test inside the loop: appendChild is
\* handed every member, and refuses what is no Node with TypeError.
RECURSIVE AppendEach_Unfiltered(_, _, _)
AppendEach_Unfiltered(d, k, items) ==
  IF items = <<>> THEN Ok(d)
  ELSE LET r == IF IsElement(Head(items)) THEN appendChild(d, k, Head(items).n)
                ELSE Throw(d, "TypeError")
       IN IF r.threw # "" THEN r ELSE AppendEach_Unfiltered(r.d, k, Tail(items))

\* A variant that walks the array from its end.
RECURSIVE AppendEach_Reversed(_, _, _)
AppendEach_Reversed(d, k, items) ==
  IF items = <<>> THEN Ok(d)
  ELSE LET last == items[Len(items)]
           r == IF IsElement(last) THEN appendChild(d, k, last.n) ELSE Ok(d)
       IN IF r.threw # "" THEN r
          ELSE AppendEach_Reversed(r.d, k, SubSeq(items, 1, Len(items) - 1))

\* contentToAppend.forEach(child => ...) of this.append
RECURSIVE AppendEach(_, _, _)
AppendEach(d, k, items) ==
  IF items = <<>> THEN Ok(d)
  ELSE LET r == IF IsElement(Head(items)) THEN appendChild(d, k, Head(items).n) ELSE Ok(d)
       IN IF r.threw # "" THEN r ELSE AppendEach(r.d, k, Tail(items))

\* this.append(element, contentToAppend)
append(d, k, contentToAppend) ==
  IF IsElement(contentToAppend) THEN appendChild(d, k, contentToAppend.n)
  ELSE IF contentToAppend.t = "array" THEN AppendEach(d, k, contentToAppend.items)
  ELSE Ok(d)

\* this.remove(element)
remove(d, k) == IF ParentOf(d, k) # NoParent THEN Ok(Detach(d, k)) ELSE Ok(d)

\* this.removeAllChildren(element)
removeAllChildren(d, k) == Ok([d EXCEPT !.el[k].childNodes = <<>>])

\* this.applyStyle(element, styleObject) and newElement.setStyles(styleObject)
applyStyle(d, k, styleObject) ==
  Ok([d EXCEPT !.el[k] = applyStylesToElement(@, styleObject)])

setStyles(d, k, styleObject) ==
  Return([d EXCEPT !.el[k] = applyStylesToElement(@, styleObject)], JsElement(k))

\* newElement.appendTo(intendedParentElement)
appendTo(d, k, intendedParentElement) ==
  IF IsElement(intendedParentElement)
    THEN LET r == appendChild(d, intendedParentElement.n, k)
         IN IF r.threw # "" THEN r ELSE Return(r.d, JsElement(k))
    ELSE Return(d, JsElement(k))

\* A variant in which static content ends the element's dynamic content.
setContent_Forgetting(d, k, content) ==
  IF content.t = "function"
    THEN Return(SetTextContent([d EXCEPT !.el[k].dynamicContent = content.f],
                               k, CallFunction(content.f, clock)),
                JsElement(k))
    ELSE Return(SetTextContent([d EXCEPT !.el[k].dynamicContent = ""],
                               k, IF content.t = "string" THEN content.s ELSE ""),
                JsElement(k))

\* newElement.setContent(content)
setContent(d, k, content) ==
  IF content.t = "function"
    THEN Return(SetTextContent([d EXCEPT !.el[k].dynamicContent = content.f],
                               k, CallFunction(content.f, clock)),
                JsElement(k))
    ELSE Return(SetTextContent(d, k, IF content.t = "string" THEN content.s ELSE ""),
                JsElement(k))

\* A variant that brings only the content up to date.
render_ContentOnly(d, k) ==
  Return(IF d.el[k].dynamicContent # ""
           THEN SetTextContent(d, k, CallFunction(d.el[k].dynamicContent, clock)) ELSE d,
         JsElement(k))

\* newElement.render()
render(d, k) ==
  LET e == d.el[k]
      d1 == IF e.dynamicContent # ""
              THEN SetTextContent(d, k, CallFunction(e.dynamicContent, clock)) ELSE d
      e1 == d1.el[k]
      e2 == IF e1.dynamicStyles # <<>>
              THEN applyStylesToElement(e1, JsObject(e1.dynamicStyles)) ELSE e1
      a == IF e2.dynamicAttributes # <<>>
             THEN setAttributesOnElement(e2, e2.dynamicAttributes, TRUE)
             ELSE [e |-> e2, attributes |-> <<>>, threw |-> ""]
      d2 == [d1 EXCEPT !.el[k] = a.e]
  IN IF a.threw # "" THEN Throw(d2, a.threw) ELSE Return(d2, JsElement(k))

-----------------------------------------------------------------------------
(* The parser runs: a selector is assembled from pieces, then parsed.      *)

Piece(kind, name, value, text) ==
  [kind |-> kind, name |-> name, value |-> value, text |-> text]

\* Pieces of single-element selectors, among them the documented examples
\* '#myDiv', '.myClass', 'div' and 'input[type="text"]' (make's JSDoc).
SelectorPieces ==
  { Piece("tag", "div", "", "div"),
    Piece("tag", "input", "", "input"),
    Piece("id", "myDiv", "", "#myDiv"),
    Piece("id", "b", "", "#b"),
    Piece("class", "myClass", "", ".myClass"),
    Piece("class", "c", "", ".c"),
    Piece("attr", "type", "text", "[type=\"text\"]"),
    Piece("attr", "type", "x", "[type=x]"),
    Piece("attr", "k", "", "[k]") }

\* Pieces of selectors with combinators: names, blanks, the two combinators,
\* a short bracketed attribute, a long one and one that holds a '>'.
RelativePieces ==
  { Piece("name", "a", "", "a"),
    Piece("name", "b", "", "b"),
    Piece("blank", "", "", " "),
    Piece("comb", ">", "", ">"),
    Piece("comb", "+", "", "+"),
    Piece("attr", "k", "", "[k]"),
    Piece("attr", "type", "x", "[type=\"x\"]"),
    Piece("attr", "x>y", "", "[x>y]") }

SeqsUpTo(S, n) == UNION {[1..k -> S] : k \in 0..n}

Text(ps) == Concat([k \in 1..Len(ps) |-> ps[k].text])

NoComponents ==
  [tagName |-> Undefined, id |-> Undefined, classList |-> <<>>, attributes |-> <<>>]
NoRelative ==
  [elementDefinition |-> Undefined, parentElement |-> Undefined,
   siblingElement |-> Undefined]

\* The page the library runs in, and what callers pass.

\* html > ul#host > (li.item, li#last)
Page ==
  [count |-> 4,
   root |-> <<ElementNode(1)>>,
   el |-> <<[NewElement("html", "html") EXCEPT !.childNodes = <<ElementNode(2)>>],
            [NewElement("html", "ul") EXCEPT !.id = "host",
               !.attributes = ("id" :> "host"),
               !.childNodes = <<ElementNode(3), ElementNode(4)>>],
            [NewElement("html", "li") EXCEPT !.classList = <<"item">>,
               !.attributes = ("class" :> "item")],
            [NewElement("html", "li") EXCEPT !.id = "last",
               !.attributes = ("id" :> "last")]>>]

\* The fixture of src/tests.js inside a page: html > div > p, and a span
\* that document.createElement has returned and nothing holds yet.
Fixture ==
  [count |-> 4,
   root |-> <<ElementNode(1)>>,
   el |-> <<[NewElement("html", "html") EXCEPT !.childNodes = <<ElementNode(2)>>],
            [NewElement("html", "div") EXCEPT !.childNodes = <<ElementNode(3)>>],
            NewElement("html", "p"),
            NewElement("html", "span")>>]

\* Attribute objects the caller keeps and may pass more than once.
CallerObjects ==
  [byFunction |-> <<Prop("title", JsFunction("tick"))>>,
   plain |-> <<Prop("title", JsString("T"))>>]

\* No function handed to the library so far.
NothingGiven == [content |-> {}, styles |-> {}]

NoCall ==
  [op |-> "", target |-> 0, sel |-> "", comb |-> "", ref |-> "",
   content |-> JsUndefined, styles |-> JsUndefined, now |-> 0, threw |-> "",
   ret |-> JsUndefined, again |-> FALSE, last |-> 0, given |-> NothingGiven]

\* The browsers a page may be loaded in.
Browsers == [mathML : BOOLEAN, eofCloses : BOOLEAN]
OneBrowser == {[mathML |-> TRUE, eofCloses |-> TRUE]}

DomInit(page, browsers) ==
  /\ dom = page
  /\ pre = page
  /\ heap = CallerObjects
  /\ clock = 0
  /\ \E b \in browsers : mathML = b.mathML /\ eofCloses = b.eofCloses
  /\ calls = 0
  /\ call = NoCall


ParseInit(pieces, n, step) ==
  /\ DomInit(Page, OneBrowser)
  /\ parts \in SeqsUpTo(pieces, n)
  /\ selector = Text(parts)
  /\ pstep = step
  /\ components = NoComponents
  /\ written = Undefined
  /\ reparsed = NoComponents
  /\ relative = NoRelative

\* util.selectorToComponents(selector)
SelectorToComponentsCall ==
  /\ pstep = "selector"
  /\ components' = selectorToComponents(selector)
  /\ pstep' = "parsed"
  /\ UNCHANGED <<parts, selector, written, reparsed, relative>>
  /\ UNCHANGED domVars

\* The components written back as a selector: tagName, '#' id, '.' class for
\* each class in order, '[name="value"]' for each attribute.
WriteBack(c) ==
  c.tagName
    \o (IF c.id = Undefined THEN "" ELSE "#" \o c.id)
    \o Concat([k \in 1..Len(c.classList) |-> "." \o c.classList[k]])
    \o Concat([k \in 1..Len(c.attributes) |->
                 "[" \o c.attributes[k].name \o "=\"" \o c.attributes[k].value \o "\"]"])

WriteBackStep ==
  /\ pstep = "parsed"
  /\ written' = WriteBack(components)
  /\ pstep' = "written"
  /\ UNCHANGED <<parts, selector, components, reparsed, relative>>
  /\ UNCHANGED domVars

\* util.selectorToComponents(written)
ReparseCall ==
  /\ pstep = "written"
  /\ reparsed' = selectorToComponents(written)
  /\ pstep' = "reparsed"
  /\ UNCHANGED <<parts, selector, components, written, relative>>
  /\ UNCHANGED domVars

\* util.resolveRelativeElement(selector)
ResolveRelativeElementCall ==
  /\ pstep = "relative"
  /\ relative' = resolveRelativeElement(selector)
  /\ pstep' = "resolved"
  /\ UNCHANGED <<parts, selector, components, written, reparsed>>
  /\ UNCHANGED domVars

SelectorInit == ParseInit(SelectorPieces, MaxParts, "selector")
SelectorNext == SelectorToComponentsCall \/ WriteBackStep \/ ReparseCall
SpecSelector == SelectorInit /\ [][SelectorNext]_vars

RelativeInit == ParseInit(RelativePieces, MaxRelParts, "relative")
RelativeNext == ResolveRelativeElementCall
SpecRelative == RelativeInit /\ [][RelativeNext]_vars


-----------------------------------------------------------------------------
(* The calls on the DOM.                                                   *)

ParseIdle ==
  /\ parts = <<>>
  /\ selector = ""
  /\ components = NoComponents
  /\ written = Undefined
  /\ reparsed = NoComponents
  /\ relative = NoRelative
  /\ pstep = "idle"

\* The functions the caller has handed over for element k so far, as the
\* caller knows them: the last one given as content, and the last one given
\* for each style name.
GiveContent(g, k, content) ==
  IF content.t # "function" THEN g
  ELSE [g EXCEPT !.content = {x \in @ : x[1] # k} \cup {<<k, content.f>>}]

RECURSIVE GiveStyles(_, _, _)
GiveStyles(g, k, props) ==
  IF props = <<>> THEN g
  ELSE GiveStyles(IF Head(props).value.t # "function" THEN g
                  ELSE [g EXCEPT !.styles =
                          {x \in @ : ~(x[1] = k /\ x[2] = Head(props).name)}
                            \cup {<<k, Head(props).name, Head(props).value.f>>}],
                  k, Tail(props))

Given(g, c, r) ==
  LET k == IF c.op \in {"make", "draw", "math"} THEN r.ret.n ELSE c.target
      withContent == IF c.op \in {"make", "draw", "math", "setContent"}
                       THEN GiveContent(g, k, c.content) ELSE g
  IN IF r.threw # "" THEN g
     ELSE IF c.op \in {"make", "draw", "math", "setStyles", "applyStyle"}
               /\ c.styles.t = "object"
       THEN GiveStyles(withContent, k, c.styles.props)
     ELSE withContent

\* What a call leaves behind: the tree before it, the tree after it, and the
\* call with its outcome.
Called(c, r) ==
  /\ dom' = r.d
  /\ pre' = dom
  /\ call' = [c EXCEPT !.threw = r.threw, !.ret = r.ret, !.now = clock,
                       !.last = call.now,
                       !.given = Given(call.given, c, r),
                       !.again = (call.op = c.op /\ call.target = c.target
                                  /\ call.styles = c.styles /\ call.content = c.content
                                  /\ call.ref = c.ref /\ call.sel = c.sel)]
  /\ UNCHANGED parseVars

\* The number of definition objects in a content value: each may create one
\* element.
RECURSIVE Definitions(_)
RECURSIVE DefinitionsIn(_)
DefinitionsIn(items) ==
  IF items = <<>> THEN 0 ELSE Definitions(Head(items)) + DefinitionsIn(Tail(items))
Definitions(v) ==
  CASE v.t = "array" -> DefinitionsIn(v.items)
    [] v.t = "object" -> 1 + Definitions(Get(v, "content"))
    [] OTHER -> 0

Room(n) == dom.count + n <= Page.count + MaxCreated

\* A selector handed to make, with the combinator and the text before it as
\* the caller wrote them.
Sel(text, comb, ref) == [text |-> text, comb |-> comb, ref |-> ref]

MakeArgs(sel, content, styles, listeners) ==
  [sel |-> sel, content |-> content, styles |-> styles, listeners |-> listeners]

\* make / draw / math (selector, content, styles, listeners)
MakeCall(op, inputs) ==
  \E i \in inputs :
    /\ Room(1 + Definitions(i.content))
    /\ Called([NoCall EXCEPT !.op = op, !.sel = i.sel.text, !.comb = i.sel.comb,
                             !.ref = i.sel.ref, !.content = i.content,
                             !.styles = i.styles],
              CASE op = "make" -> makeHtml(dom, i.sel.text, i.content, i.styles, i.listeners)
                [] op = "draw" -> draw(dom, i.sel.text, i.content, i.styles, i.listeners)
                [] op = "math" -> math(dom, i.sel.text, i.content, i.styles, i.listeners))
    /\ UNCHANGED <<heap, clock, mathML, eofCloses>>

\* objectToElement(obj)
ObjectToElementCall(inputs) ==
  \E obj \in inputs :
    /\ Room(Definitions(obj))
    /\ Called([NoCall EXCEPT !.op = "objectToElement", !.content = obj],
              objectToElement(dom, obj))
    /\ UNCHANGED <<heap, clock, mathML, eofCloses>>

\* append(element, contentToAppend)
AppendCall(inputs) ==
  \E k \in Elements(dom), c \in inputs :
    /\ Called([NoCall EXCEPT !.op = "append", !.target = k, !.content = c],
              append(dom, k, c))
    /\ UNCHANGED <<heap, clock, mathML, eofCloses>>

\* remove(element)
RemoveCall ==
  \E k \in Elements(dom) :
    /\ Called([NoCall EXCEPT !.op = "remove", !.target = k], remove(dom, k))
    /\ UNCHANGED <<heap, clock, mathML, eofCloses>>

\* removeAllChildren(element)
RemoveAllChildrenCall ==
  \E k \in Elements(dom) :
    /\ Called([NoCall EXCEPT !.op = "removeAllChildren", !.target = k],
              removeAllChildren(dom, k))
    /\ UNCHANGED <<heap, clock, mathML, eofCloses>>

\* applyStyle(element, styleObject)
ApplyStyleCall(inputs) ==
  \E k \in Elements(dom), s \in inputs :
    /\ Called([NoCall EXCEPT !.op = "applyStyle", !.target = k, !.styles = s],
              applyStyle(dom, k, s))
    /\ UNCHANGED <<heap, clock, mathML, eofCloses>>

HasMethod(k, m) == m \in dom.el[k].methods

\* element.setStyles(styleObject)
SetStylesCall(inputs) ==
  \E k \in Elements(dom), s \in inputs :
    /\ HasMethod(k, "setStyles")
    /\ Called([NoCall EXCEPT !.op = "setStyles", !.target = k, !.styles = s],
              setStyles(dom, k, s))
    /\ UNCHANGED <<heap, clock, mathML, eofCloses>>

\* element.setAttributes(attributesObject), with an object the caller holds
SetAttributesCall ==
  \E k \in Elements(dom), ref \in DOMAIN heap :
    /\ HasMethod(k, "setAttributes")
    /\ LET a == setAttributesOnElement(dom.el[k], heap[ref], FALSE)
           d1 == [dom EXCEPT !.el[k] = a.e]
       IN /\ Called([NoCall EXCEPT !.op = "setAttributes", !.target = k, !.ref = ref,
                                    !.content = JsObject(heap[ref])],
                    IF a.threw # "" THEN Throw(d1, a.threw) ELSE Return(d1, JsElement(k)))
          /\ heap' = [heap EXCEPT ![ref] = a.attributes]
    /\ UNCHANGED <<clock, mathML, eofCloses>>

\* element.setContent(content)
SetContentCall(inputs) ==
  \E k \in Elements(dom), c \in inputs :
    /\ HasMethod(k, "setContent")
    /\ Called([NoCall EXCEPT !.op = "setContent", !.target = k, !.content = c],
              setContent(dom, k, c))
    /\ UNCHANGED <<heap, clock, mathML, eofCloses>>

\* element.render()
RenderCall ==
  \E k \in Elements(dom) :
    /\ HasMethod(k, "render")
    /\ Called([NoCall EXCEPT !.op = "render", !.target = k], render(dom, k))
    /\ UNCHANGED <<heap, clock, mathML, eofCloses>>

\* element.appendTo(intendedParentElement)
AppendToCall ==
  \E k \in Elements(dom), p \in Elements(dom) :
    /\ HasMethod(k, "appendTo")
    /\ Called([NoCall EXCEPT !.op = "appendTo", !.target = k, !.content = JsElement(p)],
              appendTo(dom, k, JsElement(p)))
    /\ UNCHANGED <<heap, clock, mathML, eofCloses>>

\* The record of a finished call is dropped before the next call begins, in
\* the runs that look at one call at a time.
Idle == call.op = ""
Continue ==
  /\ ~Idle
  /\ call' = NoCall
  /\ pre' = dom
  /\ UNCHANGED <<dom, heap, clock, mathML, eofCloses, calls>>
  /\ UNCHANGED parseVars

\* Time passes between two calls: what the caller's functions return changes.
Tick ==
  /\ clock' = 1 - clock
  /\ UNCHANGED <<dom, pre, call, heap, mathML, eofCloses, calls>>
  /\ UNCHANGED parseVars

-----------------------------------------------------------------------------
(* The runs of append, remove and removeAllChildren on the test fixture.   *)

ArrayMembers ==
  {JsElement(2), JsElement(3), JsElement(4), JsString("not an element")}

AppendContents ==
  {JsElement(k) : k \in 1..Fixture.count}
    \cup {JsDocument, JsString("not an element")}
    \cup {JsArray(items) : items \in SeqsUpTo(ArrayMembers, MaxArray)}

DoAppend == Idle /\ AppendCall(AppendContents) /\ UNCHANGED calls
DoRemove == Idle /\ RemoveCall /\ UNCHANGED calls
DoRemoveAllChildren == Idle /\ RemoveAllChildrenCall /\ UNCHANGED calls

AppendInit == DomInit(Fixture, OneBrowser) /\ ParseIdle
AppendNext == DoAppend \/ DoRemove \/ DoRemoveAllChildren \/ Continue
SpecAppend == AppendInit /\ [][AppendNext]_vars

-----------------------------------------------------------------------------
(* Properties of append.                                                   *)

ElementMembers(items) == {items[i].n : i \in {j \in 1..Len(items) : IsElement(items[j])}}

\* After append(element, array): the element children of `element` are the
\* old ones and the Element members, and it has no other new child node.
GainedExactly(k, items) ==
  /\ ChildElements(dom, k) = ChildElements(pre, k) \cup ElementMembers(items)
  /\ Len(dom.el[k].childNodes) =
       Len(pre.el[k].childNodes)
         + Cardinality(ElementMembers(items) \ ChildElements(pre, k))

\* C1 as stated: for any array mixing Elements and other values the call
\* raises no error and the element gains exactly the Element members.
C1_IgnoresNonElements ==
  (call.op = "append" /\ call.content.t = "array") =>
    /\ call.threw = ""
    /\ GainedExactly(call.target, call.content.items)

\* C1 amended: the same, for arrays none of whose Element members is the
\* element itself or one of its ancestors (appendChild refuses those with
\* HierarchyRequestError).
C1_IgnoresNonElementsBelow ==
  (/\ call.op = "append"
   /\ call.content.t = "array"
   /\ \A m \in ElementMembers(call.content.items) :
        ~IsInclusiveAncestor(pre, m, call.target)) =>
    /\ call.threw = ""
    /\ GainedExactly(call.target, call.content.items)

C1_Witness ==
  /\ call.op = "append"
  /\ call.content.t = "array"
  /\ call.threw = ""
  /\ \E i \in 1..Len(call.content.items) : ~IsElement(call.content.items[i])
  /\ Cardinality(ElementMembers(call.content.items) \ ChildElements(pre, call.target)) >= 2
  /\ ElementMembers(call.content.items) \subseteq ChildElements(dom, call.target)

LastIndexIn(items, m) == Max({i \in 1..Len(items) : IsElement(items[i]) /\ items[i].n = m})

\* C2: when append(element, content) returns, a single Element is the last
\* child and the other children keep their order; the members of an array
\* of Elements stand after the children that were there and are not in the
\* array, in the order of the array.
C2_AppendsAtEndInOrder ==
  (call.op = "append" /\ call.threw = "") =>
    LET k == call.target
        cs == dom.el[k].childNodes
        old == pre.el[k].childNodes
    IN /\ call.content.t = "element" =>
            cs = Append(Without(old, call.content.n), ElementNode(call.content.n))
       /\ (/\ call.content.t = "array"
           /\ \A i \in 1..Len(call.content.items) : IsElement(call.content.items[i])) =>
            LET items == call.content.items
                M == ElementMembers(items)
                kept == SelectSeq(old, LAMBDA c : ~(c.t = "element" /\ c.n \in M))
                n == Len(kept)
            IN /\ Len(cs) = n + Cardinality(M)
               /\ SubSeq(cs, 1, n) = kept
               /\ \A i \in (n + 1)..Len(cs) : cs[i].t = "element" /\ cs[i].n \in M
               /\ \A i, j \in (n + 1)..Len(cs) :
                    i < j => LastIndexIn(items, cs[i].n) < LastIndexIn(items, cs[j].n)

C2_Witness ==
  /\ call.op = "append"
  /\ call.threw = ""
  /\ call.content.t = "array"
  /\ pre.el[call.target].childNodes # <<>>
  /\ Len(dom.el[call.target].childNodes) >= Len(pre.el[call.target].childNodes) + 2
  /\ \A i \in 1..Len(call.content.items) : IsElement(call.content.items[i])

-----------------------------------------------------------------------------
(* Properties of the parsers.                                              *)

DocumentedExamples == {"#myDiv", ".myClass", "div", "input[type=\"text\"]"}

\* C4: for each documented example selector, parsing it, writing the
\* result back and parsing that string again gives the same components.
C4_RoundTrip ==
  (pstep = "reparsed" /\ selector \in DocumentedExamples) => reparsed = components

C4_Witness ==
  /\ pstep = "reparsed"
  /\ selector = "input[type=\"text\"]"
  /\ written = "input[type=\"text\"]"
  /\ reparsed.attributes = <<[name |-> "type", value |-> "text"]>>

\* A selector in the documented shape: an optional tag name first, then
\* '#id', '.class' and '[attribute]' pieces in any order.
WellFormed(ps) == \A k \in 2..Len(ps) : ps[k].kind # "tag"

PiecesOf(ps, kind) == {k \in 1..Len(ps) : ps[k].kind = kind}

ValueOfKey(obj, name) ==
  LET K == {k \in 1..Len(obj) : obj[k].name = name}
  IN IF K = {} THEN Undefined ELSE obj[Min(K)].value

\* Every attribute name holds the value of the last piece that names it.
LastAttributeWins ==
  \A k \in PiecesOf(parts, "attr") :
    ValueOfKey(components.attributes, parts[k].name) =
      parts[Max({j \in PiecesOf(parts, "attr") : parts[j].name = parts[k].name})].value

\* C7 as stated: in the parse result the last match wins for the id and for
\* the value of each attribute name.
C7_LastMatchWins ==
  (pstep = "parsed" /\ WellFormed(parts)) =>
    /\ PiecesOf(parts, "id") # {} =>
         components.id = parts[Max(PiecesOf(parts, "id"))].name
    /\ LastAttributeWins

\* C7 amended: the last match wins for the value of each attribute name;
\* the id is the one of the first '#id' piece.
C7_FirstIdLastAttribute ==
  (pstep = "parsed" /\ WellFormed(parts)) =>
    /\ components.id = IF PiecesOf(parts, "id") = {} THEN Undefined
                       ELSE parts[Min(PiecesOf(parts, "id"))].name
    /\ LastAttributeWins

C7_Witness ==
  /\ pstep = "parsed"
  /\ WellFormed(parts)
  /\ \E i, j \in PiecesOf(parts, "id") : i < j /\ parts[i].name # parts[j].name
  /\ \E i, j \in PiecesOf(parts, "attr") :
       i < j /\ parts[i].name = parts[j].name /\ parts[i].value # parts[j].value

\* C8: resolveRelativeElement splits at the last '>' or '+' that stands
\* outside the bracketed pieces; with no such character the result is the
\* trimmed input, without parent or sibling.
C8_SplitsAtLastCombinator ==
  pstep = "resolved" =>
    LET combs == PiecesOf(parts, "comb")
        k == Max(combs)
        before == Trim(Text(SubSeq(parts, 1, k - 1)))
        after == Trim(Text(SubSeq(parts, k + 1, Len(parts))))
    IN IF combs = {}
         THEN /\ relative.elementDefinition = Trim(selector)
              /\ relative.parentElement = Undefined
              /\ relative.siblingElement = Undefined
         ELSE /\ relative.elementDefinition = after
              /\ parts[k].text = ">" => relative.parentElement = before
              /\ parts[k].text = "+" => relative.siblingElement = before

\* The '>' and '+' of the input stand inside bracketed pieces only, and
\* there is at least one.
OnlyBracketedCombinators ==
  /\ PiecesOf(parts, "comb") = {}
  /\ \E k \in PiecesOf(parts, "attr") :
       IndexOfFrom(parts[k].text, ">", 1) # 0 \/ IndexOfFrom(parts[k].text, "+", 1) # 0

C15_BracketKeptWhole ==
  /\ pstep = "resolved"
  /\ OnlyBracketedCombinators
  /\ Cardinality(PiecesOf(parts, "attr")) >= 2
  /\ relative.parentElement = Undefined
  /\ relative.elementDefinition = Trim(selector)


-----------------------------------------------------------------------------
(* The runs of make, draw, math and objectToElement on the page.           *)

None == JsUndefined

Definition(kind, sel) == JsObject(<<Prop(kind, JsString(sel))>>)

\* Selectors callers hand to make: plain ones, ones with a parent or a
\* sibling that is or is not on the page, tag names the DOM rejects, and a
\* bracketed value that holds a '>'.
Selectors ==
  { Sel("p", "", ""),
    Sel("#host > span.note", ">", "#host"),
    Sel("html > ul > li", ">", "html > ul"),
    Sel("li.item + li", "+", "li.item"),
    Sel("#last + li#b[k=\"v\"]", "+", "#last"),
    Sel("html + div", "+", "html"),
    Sel("#none > em", ">", "#none"),
    Sel("#none + em", "+", "#none"),
    Sel("> b", ">", ""),
    Sel("1x", "", ""),
    Sel("#host > 1x", ">", "#host"),
    Sel("li.item + -x", "+", "li.item"),
    Sel("#none > 1x", ">", "#none"),
    Sel("#host > a[type=\"x\"][title=\">\"]", ">", "#host") }

Contents ==
  { JsString("hi"),
    JsFunction("tick"),
    JsNumber(0),
    JsElement(3),
    JsElement(2),
    Definition("make", "b"),
    Definition("make", "1x"),
    JsArray(<<JsElement(4), JsString("x"), Definition("make", "1x")>>) }

StyleObjects ==
  { JsObject(<<Prop("color", JsString("red"))>>),
    JsObject(<<Prop("--w", JsFunction("tick")), Prop("margin-left", JsString("1px"))>>),
    JsObject(<<Prop("color", JsFunction("constA"))>>),
    JsObject(<<Prop("color", JsFunction("tick"))>>) }

Listeners == {None, JsObject(<<Prop("click", JsFunction("constA"))>>)}

MakeInputs ==
  {MakeArgs(s, None, None, None) : s \in Selectors}
    \cup {MakeArgs(s, c, None, None) :
            s \in {Sel("p", "", ""), Sel("#host > span.note", ">", "#host"),
                   Sel("#none > em", ">", "#none")},
            c \in Contents}
    \cup {MakeArgs(Sel("li.item + li", "+", "li.item"), JsString("hi"), st, l) :
            st \in StyleObjects, l \in Listeners}

DrawInputs ==
  { MakeArgs(Sel("circle[r=\"2\"]", "", ""), None, None, None),
    MakeArgs(Sel("#host > svg", ">", "#host"), Definition("draw", "g"), None, None),
    MakeArgs(Sel("#last + 1x", "+", "#last"), None, None, None) }

MathInputs ==
  { MakeArgs(Sel("mi", "", ""), JsString("x"), None, None),
    MakeArgs(Sel("#host > mrow[k=\"v\"]", ">", "#host"), None, None, None),
    MakeArgs(Sel("#host > -x", ">", "#host"), None, None, None) }

ObjectInputs ==
  { JsUndefined, JsNull, JsString("p"), JsNumber(1), JsObject(<<>>),
    Definition("make", "p"),
    Definition("make", "1x"),
    Definition("make", "html + div"),
    Definition("draw", "#host > g"),
    Definition("math", "mi[k=\"v\"]"),
    JsObject(<<Prop("make", JsNumber(1)), Prop("content", JsString("hi"))>>),
    JsObject(<<Prop("math", JsString("mi")), Prop("draw", JsString("g")),
               Prop("make", JsString("#host > p"))>>),
    JsObject(<<Prop("make", JsNumber(1)), Prop("draw", JsString("g")),
               Prop("math", JsString("mi"))>>),
    JsObject(<<Prop("draw", JsNull), Prop("math", JsString("mrow")),
               Prop("content", JsString("x"))>>),
    JsObject(<<Prop("make", JsString("#host > div")),
               Prop("content", JsArray(<<Definition("make", "1x"), JsElement(3)>>))>>) }

DoMake == Idle /\ MakeCall("make", MakeInputs) /\ UNCHANGED calls
DoDraw == Idle /\ MakeCall("draw", DrawInputs) /\ UNCHANGED calls
DoMath == Idle /\ MakeCall("math", MathInputs) /\ UNCHANGED calls
DoObjectToElement == Idle /\ ObjectToElementCall(ObjectInputs) /\ UNCHANGED calls

Init == DomInit(Page, Browsers) /\ ParseIdle
Next == DoMake \/ DoDraw \/ DoMath \/ DoObjectToElement \/ Continue
Spec == Init /\ [][Next]_vars

-----------------------------------------------------------------------------
(* Properties of make, draw, math and objectToElement.                     *)

MakeOps == {"make", "draw", "math"}

\* C5: objectToElement never throws to the caller, whatever its argument;
\* it returns the created Element or undefined.
C5_NeverThrows ==
  call.op = "objectToElement" =>
    /\ call.threw = ""
    /\ call.ret.t \in {"element", "undefined"}
    /\ call.ret.t = "element" => call.ret.n \in Elements(dom) \ Elements(pre)

\* objectToElement has returned undefined for a definition whose element
\* the DOM refused to create.
C5_Witness ==
  /\ call.op = "objectToElement"
  /\ call.content.t = "object"
  /\ Get(call.content, "make").t = "string"
  /\ call.threw = ""
  /\ call.ret = JsUndefined

\* The tag name make parses from its selector.
ParsedTagName(sel) ==
  selectorToComponents(resolveRelativeElement(sel).elementDefinition).tagName

\* C6: make/draw/math with a selector whose parsed tag name the DOM rejects
\* raises the DOM's exception to the caller and leaves the document tree,
\* with every element, as it was.
C6_InvalidTagNamePropagates ==
  (call.op \in MakeOps /\ ~ValidTagName(ParsedTagName(call.sel))) =>
    /\ call.threw = "InvalidCharacterError"
    /\ dom = pre

\* A call with a rejected tag name and a parent that is on the page has
\* ended in the exception.
C6_Witness ==
  /\ call.op \in MakeOps
  /\ ~ValidTagName(ParsedTagName(call.sel))
  /\ call.comb # ""
  /\ querySelector(pre, call.ref).ret.t = "element"
  /\ call.threw = "InvalidCharacterError"

\* C10 as stated: when make has returned, the new element is the last child
\* of the element querySelector(P) finds for 'P > X', and the node directly
\* after S among the children of S's parent for 'S + X'.
C10_PlacesByCombinator ==
  (call.op \in MakeOps /\ call.threw = "" /\ call.comb # "") =>
    LET q == querySelector(dom, call.ref)
        new == ElementNode(call.ret.n)
    IN (q.threw = "" /\ q.ret.t = "element") =>
         /\ call.comb = ">" =>
              /\ dom.el[q.ret.n].childNodes # <<>>
              /\ dom.el[q.ret.n].childNodes[Len(dom.el[q.ret.n].childNodes)] = new
         /\ (call.comb = "+" /\ ParentOf(dom, q.ret.n) # NoParent) =>
              LET p == ParentOf(dom, q.ret.n)
                  cs == IF p = DOC THEN dom.root ELSE dom.el[p].childNodes
                  i == PositionOf(cs, q.ret.n)
              IN i < Len(cs) /\ cs[i + 1] = new

\* The selector make hands to document.querySelector: the parent or the
\* sibling part of its selector ('' when it has neither).
AttachSelector(sel) ==
  With(resolveRelativeElement(sel), LAMBDA elementInfo :
    IF Truthy(elementInfo.parentElement) THEN elementInfo.parentElement
    ELSE IF Truthy(elementInfo.siblingElement) THEN elementInfo.siblingElement
    ELSE "")

\* Whether make's selector has a parent or sibling part that
\* document.querySelector finds nothing for in d.
MatchesNothing(d, sel) ==
  With(AttachSelector(sel), LAMBDA part :
    /\ part # ""
    /\ With(querySelector(d, part), LAMBDA q : q.threw = "" /\ q.ret = JsNull))

\* The elements that are in the document.
InDocument(d) == {PreOrder(d, d.root)[i] : i \in 1..Len(PreOrder(d, d.root))}

\* The document tree of the last call is the one before it: the same nodes
\* under the document, each with the same children and properties.
DocumentUnchanged ==
  /\ dom.root = pre.root
  /\ \A k \in InDocument(pre) : dom.el[k] = pre.el[k]

\* The elements a content value holds, at any depth.
RECURSIVE ElementsIn(_)
RECURSIVE ElementsAmong(_)
ElementsAmong(items) ==
  IF items = <<>> THEN {} ELSE ElementsIn(Head(items)) \cup ElementsAmong(Tail(items))
ElementsIn(v) ==
  CASE v.t = "element" -> {v.n}
    [] v.t = "array" -> ElementsAmong(v.items)
    [] v.t = "object" -> ElementsIn(Get(v, "content"))
    [] OTHER -> {}

\* The element make has returned has no parent and carries the five methods.
ReturnedDetached ==
  /\ call.ret.t = "element"
  /\ ParentOf(dom, call.ret.n) = NoParent
  /\ ElementMethods \subseteq dom.el[call.ret.n].methods

\* C11 as stated: when the parent or sibling selector before the combinator
\* finds nothing in the document, make raises no error, the document tree is unchanged, and
\* the returned element has no parent and carries the five methods.
C11_NoMatchReturnsDetached ==
  (call.op = "make" /\ MatchesNothing(pre, call.sel)) =>
    /\ call.threw = ""
    /\ DocumentUnchanged
    /\ ReturnedDetached

\* C11 amended: the same, for a selector whose tag name the DOM accepts and
\* content that holds no element of the document (make moves such an element
\* out of the document into the new one).
C11_NoMatchReturnsDetachedKeepingContent ==
  (/\ call.op = "make"
   /\ MatchesNothing(pre, call.sel)
   /\ ValidTagName(ParsedTagName(call.sel))
   /\ ElementsIn(call.content) \cap InDocument(pre) = {}) =>
    /\ call.threw = ""
    /\ DocumentUnchanged
    /\ ReturnedDetached

\* make has returned a detached element that holds a child built from a
\* definition, after its parent selector found nothing.
C11_Witness ==
  /\ call.op = "make"
  /\ MatchesNothing(pre, call.sel)
  /\ IsDefinition(call.content)
  /\ call.threw = ""
  /\ ReturnedDetached
  /\ dom.el[call.ret.n].childNodes # <<>>
  /\ DocumentUnchanged

\* The first of make, draw, math that holds a string in obj, with the
\* namespace of its elements; '' when none does or obj is no object.
SelectedKind(obj) ==
  IF obj.t # "object" THEN ""
  ELSE IF Get(obj, "make").t = "string" THEN "make"
  ELSE IF Get(obj, "draw").t = "string" THEN "draw"
  ELSE IF Get(obj, "math").t = "string" THEN "math"
  ELSE ""

NamespaceOf(kind) ==
  CASE kind = "make" -> "html" [] kind = "draw" -> "svg" [] kind = "math" -> "mathml"

\* C14: objectToElement builds from the first of obj.make, obj.draw,
\* obj.math that is a string: the element it returns is an HTML, SVG or
\* MathML element accordingly, with the tag name of that selector, and it
\* does return one when the selector names a tag the DOM accepts and no
\* parent or sibling; when none of the three is a string the result is
\* undefined and nothing is created.
C14_FirstStringPropertySelects ==
  call.op = "objectToElement" =>
    With(SelectedKind(call.content), LAMBDA kind :
      IF kind = ""
        THEN call.ret = JsUndefined /\ dom = pre
      ELSE With(Get(call.content, kind).s, LAMBDA sel :
        /\ call.ret.t = "element" =>
             /\ dom.el[call.ret.n].ns = NamespaceOf(kind)
             /\ dom.el[call.ret.n].tagName = ParsedTagName(sel)
        /\ (/\ ValidTagName(ParsedTagName(sel))
            /\ AttachSelector(sel) = ""
            /\ kind = "math" =>
                 (~mathML \/ selectorToComponents(sel).attributes = <<>>)) =>
             call.ret.t = "element"))

\* An object that holds strings for math, draw and make has given an HTML
\* element, placed by the selector of make.
C14_Witness ==
  /\ call.op = "objectToElement"
  /\ call.content.t = "object"
  /\ Get(call.content, "make").t = "string"
  /\ Get(call.content, "draw").t = "string"
  /\ Get(call.content, "math").t = "string"
  /\ call.ret.t = "element"
  /\ dom.el[call.ret.n].ns = "html"
  /\ dom.el[call.ret.n].tagName = "p"

\* An object whose make is no string has given the SVG element of its draw.
C14_WitnessDraw ==
  /\ call.op = "objectToElement"
  /\ call.content.t = "object"
  /\ Get(call.content, "make").t = "number"
  /\ call.ret.t = "element"
  /\ dom.el[call.ret.n].ns = "svg"

-----------------------------------------------------------------------------
(* The runs of make with an array as content.                              *)

\* Members of the arrays: elements of the page, definitions the DOM accepts
\* and rejects, a definition whose make is no string, a definition with a
\* parent of its own, a string.
ChildMembers ==
  { JsElement(3), JsElement(4),
    Definition("make", "b"),
    Definition("make", "1x"),
    JsObject(<<Prop("make", JsNumber(1))>>),
    Definition("draw", "#host > g"),
    JsString("x") }

ChildrenInputs ==
  {MakeArgs(s, JsArray(items), None, None) :
     s \in {Sel("p", "", ""), Sel("#host > span.note", ">", "#host"),
            Sel("html + div", "+", "html")},
     items \in SeqsUpTo(ChildMembers, MaxArray)}

\* make(selector, [child, ...]) on the page as loaded
MakeChildrenCall ==
  /\ Idle
  /\ \E i \in ChildrenInputs :
       Called([NoCall EXCEPT !.op = "make", !.sel = i.sel.text, !.comb = i.sel.comb,
                             !.ref = i.sel.ref, !.content = i.content],
              makeHtml(dom, i.sel.text, i.content, i.styles, i.listeners))
  /\ UNCHANGED <<heap, clock, mathML, eofCloses, calls>>

ChildrenInit == DomInit(Page, Browsers) /\ ParseIdle
ChildrenNext == MakeChildrenCall
SpecChildren == ChildrenInit /\ [][ChildrenNext]_vars

\* A definition whose element can be built: one of make, draw, math holds
\* a string, and the first that does names a tag the DOM accepts.
Buildable(v) ==
  /\ IsDefinition(v)
  /\ SelectedKind(v) # ""
  /\ ValidTagName(ParsedTagName(Get(v, SelectedKind(v)).s))

\* The members of the array that become children, in array order: the
\* elements (each where it is listed last) and the buildable definitions.
RECURSIVE MembersKept(_, _)
MembersKept(items, i) ==
  IF i > Len(items) THEN <<>>
  ELSE (IF \/ IsElement(items[i]) /\ \A j \in (i + 1)..Len(items) : items[j] # items[i]
           \/ Buildable(items[i])
          THEN <<items[i]>> ELSE <<>>) \o MembersKept(items, i + 1)

\* The selector places the new element after the root element, which the
\* document refuses.
SiblingOfRoot(d, sel) ==
  With(resolveRelativeElement(sel).siblingElement, LAMBDA sibling :
    /\ Truthy(sibling)
    /\ With(querySelector(d, sibling), LAMBDA q :
         q.threw = "" /\ q.ret.t = "element" /\ ParentOf(d, q.ret.n) = DOC))

\* The child of the new element at place i is the member m of the array:
\* the element itself, or a new element of the kind and tag name of the
\* definition.
ChildIs(node, m) ==
  IF IsElement(m) THEN node = ElementNode(m.n)
  ELSE /\ node.t = "element"
       /\ node.n \in Elements(dom) \ Elements(pre)
       /\ node.n # call.ret.n
       /\ dom.el[node.n].ns = NamespaceOf(SelectedKind(m))
       /\ dom.el[node.n].tagName = ParsedTagName(Get(m, SelectedKind(m)).s)

\* C16: make with an array as content skips each member that is a
\* definition for which no element can be built (make, draw, math no
\* string, or a tag name the DOM rejects) and goes on: it returns the new
\* element, whose children are the Element members and the elements of the
\* buildable definitions, in the order of the array.
C16_UnbuildableChildSkipped ==
  (/\ call.op = "make"
   /\ call.content.t = "array"
   /\ ValidTagName(ParsedTagName(call.sel))
   /\ ~SiblingOfRoot(pre, call.sel)) =>
    /\ call.threw = ""
    /\ call.ret.t = "element"
    /\ call.ret.n \in Elements(dom) \ Elements(pre)
    /\ With(dom.el[call.ret.n].childNodes, LAMBDA kids :
       With(MembersKept(call.content.items, 1), LAMBDA kept :
         /\ Len(kids) = Len(kept)
         /\ \A i \in 1..Len(kept) : ChildIs(kids[i], kept[i])))

\* make has returned an element whose array held a definition the DOM
\* rejects, then a buildable one, then an element of the page: it has two
\* children, the new element and the one of the page.
C16_Witness ==
  /\ call.op = "make"
  /\ call.content.t = "array"
  /\ Len(call.content.items) = 3
  /\ IsDefinition(call.content.items[1]) /\ ~Buildable(call.content.items[1])
  /\ Buildable(call.content.items[2])
  /\ call.content.items[3] = JsElement(3)
  /\ call.threw = ""
  /\ call.ret.t = "element"
  /\ Len(dom.el[call.ret.n].childNodes) = 2
  /\ dom.el[call.ret.n].childNodes[1].n \in Elements(dom) \ Elements(pre)
  /\ dom.el[call.ret.n].childNodes[2] = ElementNode(3)

-----------------------------------------------------------------------------
(* The runs of the element methods: make, then setStyles, setAttributes,   *)
(* setContent, render, appendTo and applyStyle, with time passing between  *)
(* calls.                                                                  *)

DynamicMakeInputs ==
  { MakeArgs(Sel("p", "", ""), JsFunction("tick"), None, None),
    MakeArgs(Sel("#host > b", ">", "#host"), JsString("hi"),
             JsObject(<<Prop("--w", JsFunction("tick"))>>), None) }

DynamicContents == {JsString("hi"), JsFunction("tick"), JsFunction("constA")}

DynMake ==
  calls < MaxCalls /\ MakeCall("make", DynamicMakeInputs) /\ calls' = calls + 1
DynApplyStyle ==
  calls < MaxCalls /\ ApplyStyleCall(StyleObjects) /\ calls' = calls + 1
DynSetStyles ==
  calls < MaxCalls /\ SetStylesCall(StyleObjects) /\ calls' = calls + 1
DynSetAttributes ==
  calls < MaxCalls /\ SetAttributesCall /\ calls' = calls + 1
DynSetContent ==
  calls < MaxCalls /\ SetContentCall(DynamicContents) /\ calls' = calls + 1
DynRender ==
  calls < MaxCalls /\ RenderCall /\ calls' = calls + 1
DynAppendTo ==
  calls < MaxCalls /\ AppendToCall /\ calls' = calls + 1

DynamicInit == DomInit(Page, OneBrowser) /\ ParseIdle
DynamicNext ==
  \/ DynMake
  \/ DynApplyStyle
  \/ DynSetStyles
  \/ DynSetAttributes
  \/ DynSetContent
  \/ DynRender
  \/ DynAppendTo
  \/ Tick
SpecDynamic == DynamicInit /\ [][DynamicNext]_vars

-----------------------------------------------------------------------------
(* Properties of the element methods.                                      *)

FunctionIn(v) ==
  \/ v.t = "function"
  \/ v.t = "object" /\ \E k \in 1..Len(v.props) : v.props[k].value.t = "function"

\* Every function of a style object returned at the last call what it
\* returned at the call before.
SameValues(styles) ==
  styles.t = "object" =>
    \A k \in 1..Len(styles.props) :
      styles.props[k].value.t = "function" =>
        CallFunction(styles.props[k].value.f, call.last)
          = CallFunction(styles.props[k].value.f, call.now)

\* C3: applying the same style object to the same element twice in a row,
\* its values static or functions that returned the same both times, leaves
\* the style values and the registered dynamic styles as the first
\* application left them.
C3_StyleApplicationIdempotent ==
  (/\ call.op \in {"applyStyle", "setStyles"}
   /\ call.again
   /\ SameValues(call.styles)) =>
    /\ dom.el[call.target].style = pre.el[call.target].style
    /\ dom.el[call.target].dynamicStyles = pre.el[call.target].dynamicStyles
    /\ dom = pre

\* A style object with a function value has been applied a second time.
C3_Witness ==
  /\ call.op \in {"applyStyle", "setStyles"}
  /\ call.again
  /\ FunctionIn(call.styles)
  /\ SameValues(call.styles)
  /\ dom.el[call.target].dynamicStyles # <<>>
  /\ DOMAIN dom.el[call.target].style # {}

DynOps == {"make", "setStyles", "setAttributes", "setContent", "render"}

\* What the library keeps on an element besides its DOM properties.
Registries(d, k) ==
  [content |-> d.el[k].dynamicContent,
   styles |-> d.el[k].dynamicStyles,
   attributes |-> d.el[k].dynamicAttributes]

NoRegistries == [content |-> "", styles |-> <<>>, attributes |-> <<>>]

\* An attributes object with every function replaced by what it returns.
Evaluated(props, now) ==
  [i \in 1..Len(props) |->
     IF props[i].value.t = "function"
       THEN Prop(props[i].name, JsString(CallFunction(props[i].value.f, now)))
       ELSE props[i]]

\* C9 as stated: no call stores anything on an element or in an argument
\* object.
C9_Stateless ==
  call.op \in DynOps =>
    /\ \A k \in Elements(dom) : Registries(dom, k) = NoRegistries
    /\ heap = CallerObjects

\* C9 amended: a call stores only on the element it is made on; setStyles,
\* setAttributes and setContent handed no function store nothing; render
\* leaves the stored content and styles and replaces every function among
\* the stored attributes by its value, as setAttributes does in its argument
\* object.
C9_StoresOnlyDynamicValues ==
  call.op \in DynOps =>
    /\ \A k \in Elements(pre) \ {call.target} : Registries(dom, k) = Registries(pre, k)
    /\ (/\ call.op \in {"setStyles", "setAttributes", "setContent"}
        /\ ~FunctionIn(call.content)
        /\ ~FunctionIn(call.styles)) =>
         /\ Registries(dom, call.target) = Registries(pre, call.target)
         /\ call.op = "setAttributes" => heap[call.ref] = call.content.props
    /\ (call.op = "setAttributes" /\ call.threw = "") =>
         heap[call.ref] = Evaluated(call.content.props, call.now)
    /\ (call.op = "render" /\ call.threw = "") =>
         Registries(dom, call.target) =
           [Registries(pre, call.target) EXCEPT
              !.attributes = Evaluated(@, call.now)]

\* render has read the function an earlier call stored on the element: the
\* text is no longer what that call set.
C9_Witness ==
  /\ call.op = "render"
  /\ pre.el[call.target].dynamicContent # ""
  /\ TextContent(dom, call.target) # TextContent(pre, call.target)


\* The style property a style name stands for: the name itself for a custom
\* property, the camel-cased name otherwise.
StyleName(property) ==
  IF Len(property) >= 2 /\ SubSeq(property, 1, 2) = "--" THEN property
  ELSE ToJsNotation(property)

\* C12: once a function was given as content or as a style value of an
\* element, every later render() of the element sets its textContent to what
\* the content function returns at that moment and each such style to what
\* its function returns at that moment, and returns the element.
C12_RenderUpdatesDynamicValues ==
  call.op = "render" =>
    /\ call.threw = ""
    /\ call.ret = JsElement(call.target)
    /\ \A x \in call.given.content :
         x[1] = call.target =>
           TextContent(dom, call.target) = CallFunction(x[2], call.now)
    /\ \A x \in call.given.styles :
         x[1] = call.target =>
           /\ StyleName(x[2]) \in DOMAIN dom.el[call.target].style
           /\ dom.el[call.target].style[StyleName(x[2])] = CallFunction(x[3], call.now)

\* render has been called a second time in a row, at another time than the
\* first, on an element with a content function: the text has changed.
C12_Witness ==
  /\ call.op = "render"
  /\ call.again
  /\ call.now # call.last
  /\ \E x \in call.given.content : x[1] = call.target /\ x[2] = "tick"
  /\ TextContent(dom, call.target) # TextContent(pre, call.target)
  /\ call.ret = JsElement(call.target)

\* The same for a style function: the second render has changed the style.
C12_WitnessStyle ==
  /\ call.op = "render"
  /\ \E x \in call.given.styles : x[1] = call.target /\ x[3] = "tick"
  /\ dom.el[call.target].style # pre.el[call.target].style

-----------------------------------------------------------------------------
(* The runs of applyStylesToElement on one style name in two notations.    *)

\* Pieces of style names: words and hyphens.
StylePieces ==
  { Piece("word", "margin", "", "margin"),
    Piece("word", "left", "", "left"),
    Piece("hyphen", "-", "", "-") }

StyleValues == {JsString("1px"), JsFunction("tick")}

\* The name in JS notation, as CSSOM derives the attribute of a property:
\* every hyphen goes and the character after a run of hyphens is upper-cased.
RECURSIVE CamelCased(_, _)
CamelCased(name, upperNext) ==
  IF name = "" THEN ""
  ELSE IF Ch(name, 1) = "-" THEN CamelCased(SubSeq(name, 2, Len(name)), TRUE)
  ELSE (IF upperNext THEN UpperCase(Ch(name, 1)) ELSE Ch(name, 1))
         \o CamelCased(SubSeq(name, 2, Len(name)), FALSE)

\* applyStylesToElement(first, {name: value}) with the name as written
StyleAsWrittenCall ==
  /\ Idle
  /\ selector # ""
  /\ \E v \in StyleValues :
       Called([NoCall EXCEPT !.op = "applyStyle", !.target = 3,
                             !.styles = JsObject(<<Prop(selector, v)>>)],
              applyStyle(dom, 3, JsObject(<<Prop(selector, v)>>)))
  /\ UNCHANGED <<heap, clock, mathML, eofCloses, calls>>

\* applyStylesToElement(second, {camelCased: value}) with the same value
StyleCamelCasedCall ==
  /\ call.op = "applyStyle"
  /\ call.target = 3
  /\ CamelCased(selector, FALSE) # ""
  /\ LET styles == JsObject(<<Prop(CamelCased(selector, FALSE),
                                   call.styles.props[1].value)>>)
     IN Called([NoCall EXCEPT !.op = "applyStyle", !.target = 4, !.styles = styles],
               applyStyle(dom, 4, styles))
  /\ UNCHANGED <<heap, clock, mathML, eofCloses, calls>>

StylesInit == ParseInit(StylePieces, MaxStyleParts, "style")
StylesNext == StyleAsWrittenCall \/ StyleCamelCasedCall
SpecStyles == StylesInit /\ [][StylesNext]_vars

Hyphenated(name) == \E i \in 1..Len(name) : Ch(name, i) = "-"
CustomProperty(name) == Len(name) >= 2 /\ SubSeq(name, 1, 2) = "--"

\* A name shaped like a property name: every hyphen, a leading one included,
\* is followed by a character that is no hyphen.
PropertyName(name) ==
  \A i \in 1..Len(name) : Ch(name, i) = "-" => (i < Len(name) /\ Ch(name, i + 1) # "-")

\* What a style value comes to when it is applied at the last call.
StyleValueNow(v) == IF v.t = "function" THEN CallFunction(v.f, call.now) ELSE v.s

\* A custom property is set under exactly the name given.
CustomPropertyKept ==
  (call.op = "applyStyle" /\ call.target = 3 /\ CustomProperty(selector)) =>
    dom.el[3].style = (selector :> StyleValueNow(call.styles.props[1].value))

\* The two elements hold the same style, one property under the camel-cased
\* name.
SameStyleSet ==
  /\ dom.el[3].style = dom.el[4].style
  /\ DOMAIN dom.el[4].style = {CamelCased(selector, FALSE)}

\* C13: for any hyphenated property name that does not start with '--' and
\* any value, {name: value} sets the same style property as the camel-cased
\* name; a name that starts with '--' is set under exactly the name given.
C13_NotationsAgree ==
  /\ CustomPropertyKept
  /\ (/\ call.op = "applyStyle"
      /\ call.target = 4
      /\ Hyphenated(selector)
      /\ ~CustomProperty(selector)
      /\ PropertyName(selector)) => SameStyleSet

\* 'margin-left' and 'marginLeft' have been applied with a function value.
C13_Witness ==
  /\ call.op = "applyStyle"
  /\ call.target = 4
  /\ selector = "margin-left"
  /\ call.styles = JsObject(<<Prop("marginLeft", JsFunction("tick"))>>)
  /\ dom.el[3].style = ("marginLeft" :> "t0")
  /\ dom.el[4].style = ("marginLeft" :> "t0")

=============================================================================
